---- MODULE Spec2Model ----
(***************************************************************************)
(* Model of text_categorizer/categorizer.py: the label extractor, the      *)
(* on-disk response cache, the item processor (process_item) and the       *)
(* windowed batch scheduler (process_batch) running on one asyncio loop.   *)
(*                                                                         *)
(* Text handled by extract_categories is a sequence of one-character       *)
(* strings; descriptions, model names and cache keys are TLA+ strings.     *)
(***************************************************************************)
EXTENDS Integers, Sequences, FiniteSets, TLC

(* ------------------------------ bounds ------------------------------- *)

\* Longest input list of records.
MaxItems == 3

\* Largest batch_size (window size) tried; the smallest tried is MinBatch.
MaxBatch == 2

\* Most comma-separated segments a response to extract_categories is made of.
MaxSegments == 2

(* --------------------------- text helpers ---------------------------- *)

UpperAlphabet ==
  <<"A","B","C","D","E","F","G","H","I","J","K","L","M",
    "N","O","P","Q","R","S","T","U","V","W","X","Y","Z">>

LowerAlphabet ==
  <<"a","b","c","d","e","f","g","h","i","j","k","l","m",
    "n","o","p","q","r","s","t","u","v","w","x","y","z">>

\* str.lower() on one character.
LowerChar(c) ==
  IF \E n \in DOMAIN UpperAlphabet : UpperAlphabet[n] = c
    THEN LowerAlphabet[CHOOSE n \in DOMAIN UpperAlphabet : UpperAlphabet[n] = c]
    ELSE c

\* str.lower()
Lower(s) == [n \in DOMAIN s |-> LowerChar(s[n])]

\* The characters str.strip() removes.
Whitespace == {" ", "\n", "\t"}

\* str.strip(): drop leading and trailing whitespace.
Strip(s) ==
  LET keep == {n \in DOMAIN s : s[n] \notin Whitespace}
  IN  IF keep = {} THEN <<>>
      ELSE LET lo == CHOOSE n \in keep : \A m \in keep : n <= m
               hi == CHOOSE n \in keep : \A m \in keep : n >= m
           IN  SubSeq(s, lo, hi)

\* str.split(","): the segments between commas, in order (never empty).
RECURSIVE Split(_)
Split(s) ==
  LET commas == {n \in DOMAIN s : s[n] = ","}
  IN  IF commas = {} THEN <<s>>
      ELSE LET c == CHOOSE n \in commas : \A m \in commas : n <= m
           IN  <<SubSeq(s, 1, c - 1)>> \o Split(SubSeq(s, c + 1, Len(s)))

\* `needle in hay` on strings.
Contains(hay, needle) ==
  \E n \in 0..(Len(hay) - Len(needle)) :
      SubSeq(hay, n + 1, n + Len(needle)) = needle

(* ----------------------------- taxonomy ------------------------------ *)

\* CATEGORIES, in the order of the source.
CATEGORIES ==
  <<"Funding", "Data", "Governance", "Workforce", "Comms and engagement", "Other">>

Labels == {CATEGORIES[n] : n \in DOMAIN CATEGORIES}

\* The characters of each label.
Spell(label) ==
  CASE label = "Funding"    -> <<"F","u","n","d","i","n","g">>
    [] label = "Data"       -> <<"D","a","t","a">>
    [] label = "Governance" -> <<"G","o","v","e","r","n","a","n","c","e">>
    [] label = "Workforce"  -> <<"W","o","r","k","f","o","r","c","e">>
    [] label = "Comms and engagement" ->
         <<"C","o","m","m","s"," ","a","n","d"," ",
           "e","n","g","a","g","e","m","e","n","t">>
    [] label = "Other"      -> <<"O","t","h","e","r">>

\* Mutant of ExactMatches: the segments are compared as they are split.
ExactMatchesUnstripped(response) ==
  LET segs == Split(response)
  IN  {c \in Labels : \E n \in DOMAIN segs : segs[n] = Spell(c)}

\* First pass of extract_categories: comma-separated segments, stripped,
\* that are exactly a label.
ExactMatches(response) ==
  LET segs == Split(response)
  IN  {c \in Labels : \E n \in DOMAIN segs : Strip(segs[n]) = Spell(c)}

\* Second pass: labels occurring as a case-insensitive substring.
SubstringMatches(response) ==
  {c \in Labels : Contains(Lower(response), Lower(Spell(c)))}

\* Mutant of extract_categories: the substring pass always runs and adds to
\* what the exact pass found.
extract_categories_both_passes(response) ==
  LET detected == ExactMatches(response) \cup SubstringMatches(response)
  IN  IF detected # {} THEN detected ELSE {"Other"}

\* Mutant of extract_categories: no default when nothing was detected.
extract_categories_no_default(response) ==
  LET exact == ExactMatches(response)
  IN  IF exact # {} THEN exact ELSE SubstringMatches(response)

\* extract_categories(response)
extract_categories(response) ==
  LET exact == ExactMatches(response)
      detected == IF exact # {} THEN exact ELSE SubstringMatches(response)
  IN  IF detected # {} THEN detected ELSE {"Other"}

(* ------------------------------ records ------------------------------ *)

\* Marks a record that has no `description` field at all.
Absent == "<absent>"

\* The descriptions a record may carry; the two non-empty ones differ.
Descriptions == {Absent, "", "a", "a:b"}

\* Model identifiers a run may be given.
Models == {"m"}

\* Model identifiers of successive runs over one cache directory; Ollama
\* names a model family:tag.
RunModels == {"m", "b:m"}

\* Window sizes a run may be given: batch_size is not validated.
BatchSizes == {-1, 0} \cup (1..MaxBatch)

\* The n-th input record: an id that passes through, and maybe a description.
MkRecord(n, d) ==
  IF d = Absent THEN [id |-> n] ELSE [id |-> n, description |-> d]

\* Mutant of Falsy: `text is None`, which the default "" never is.
FalsyIsNone(text) == FALSE

\* `not text`
Falsy(text) == text = ""

\* dict.get(field, default)
Get(item, field, default) ==
  IF field \in DOMAIN item THEN item[field] ELSE default

\* {**item, "categories": cats}
WithCategories(item, cats) ==
  [f \in (DOMAIN item) \cup {"categories"} |->
      IF f = "categories" THEN cats ELSE item[f]]

\* list(a_set): the elements once each, in an order the runtime picks.
Orderings(S) ==
  {s \in [1..Cardinality(S) -> S] : \A a, b \in DOMAIN s : a # b => s[a] # s[b]}

\* The set of the elements of a list.
ToSet(s) == {s[n] : n \in DOMAIN s}

(* ------------------------------- cache ------------------------------- *)

\* hashlib.md5(f"{text}:{model}") names the cache file.  The digest is
\* identified with the string it is taken of (no md5 collisions).
CacheKey(text, mdl) == text \o ":" \o mdl

\* The file names the directory is looked at under.
CacheKeys ==
  {CacheKey(t, m) : t \in Descriptions \ {Absent}, m \in Models \cup RunModels}

\* The file names of the texts that reach the cache.
TextKeys == {CacheKey(t, m) : t \in Descriptions \ {Absent, ""}, m \in Models}

\* What a cache file may hold.  `keys` are the keys of a JSON object.
NoFile      == [kind |-> "none",    keys |-> {}, text |-> "", categories |-> <<>>]
InvalidJson == [kind |-> "invalid", keys |-> {}, text |-> "", categories |-> <<>>]
JsonArray   == [kind |-> "array",   keys |-> {}, text |-> "", categories |-> <<>>]
JsonString  == [kind |-> "string",  keys |-> {}, text |-> "", categories |-> <<>>]

JsonObject(keys, text, cats) ==
  [kind |-> "object", keys |-> keys, text |-> text, categories |-> cats]

\* Mutant of json_dump: the call is suspended with the file opened "w" and
\* the entry not yet complete in it.
json_dump_suspended(text, cats) == InvalidJson

\* Mutant of json_dump: the labels are left out of the entry.
json_dump_text_only(text, cats) == JsonObject({"text"}, text, <<>>)

\* json.dump({"text": text, "categories": cats}, f) into a file opened "w".
json_dump(text, cats) == JsonObject({"text", "categories"}, text, cats)

\* Files a cache directory may hold before the run: written by an earlier
\* run, by another version of the taxonomy, truncated, or edited by hand.
PreexistingFiles ==
  {InvalidJson, JsonArray, JsonString, JsonObject({"text"}, "a", <<>>)}
  \cup {json_dump("a", cats) :
          cats \in {<<"Workforce">>, <<>>, <<"Data", "Data">>, <<"Legacy">>}}

\* cache_file.exists()
Exists(file) == file.kind # "none"

\* json.load(f) followed by cached["categories"]: the value, or the exception.
ReadCached(file) ==
  IF file.kind = "invalid"
    THEN [exc |-> "JSONDecodeError", categories |-> <<>>]
  ELSE IF file.kind # "object"
    THEN [exc |-> "TypeError", categories |-> <<>>]
  ELSE IF "categories" \notin file.keys
    THEN [exc |-> "KeyError", categories |-> <<>>]
  ELSE [exc |-> "none", categories |-> file.categories]

\* except (json.JSONDecodeError, KeyError): pass
Caught == {"JSONDecodeError", "KeyError"}

(* ------------------------- inference service ------------------------- *)

\* Raw `response` texts the service may answer with.
Replies ==
  { <<" ","D","a","t","a",","," ","F","u","n","d","i","n","g","\n">> }

\* What one request ends in: an httpx.HTTPError (transport failure, timeout,
\* non-2xx status) or a reply.
Outcomes ==
  {[ok |-> FALSE, text |-> <<>>]} \cup {[ok |-> TRUE, text |-> r] : r \in Replies}

\* Mutant of get_ollama_response: the HTTPError is not caught.
get_ollama_response_uncaught(outcome) ==
  IF outcome.ok
    THEN [exc |-> "none", text |-> Strip(outcome.text)]
    ELSE [exc |-> "HTTPError", text |-> <<>>]

\* get_ollama_response: result.get("response", "").strip(), or "" when the
\* HTTPError is caught.  `exc` is the exception that leaves the function.
get_ollama_response(outcome) ==
  IF outcome.ok
    THEN [exc |-> "none", text |-> Strip(outcome.text)]
    ELSE [exc |-> "none", text |-> <<>>]

(* ------------------------------- state -------------------------------- *)

VARIABLES
  items,        \* process_batch: the input list of records
  batch_size,   \* process_batch: the window size
  model,        \* the model identifier of the run
  cache_dir,    \* CacheDir, or "None" when caching is disabled
  dirExists,    \* the cache directory exists on disk
  cache,        \* the cache directory: key -> file
  pc,           \* process_batch: "loop", "gather", "emit", "done", "raised"
  i,            \* process_batch: the loop variable, start of the window
  error,        \* the exception that ended the run, or "none"
  st,           \* per record, its process_item call: "unborn", "pending",
                \*   "waiting" (request in flight), "done", "raised", "cancelled"
  result,       \* per record, what its process_item call returned
  completed,    \* calls of the current window, in the order they returned
  results,      \* process_batch: what asyncio.gather returned
  output,       \* the records yielded so far, as categorize_file collects them
  path,         \* per record: "none", "empty", "hit", "miss" (request issued)
  failed,       \* per record: its inference request ended in an HTTPError
  found,        \* per record: what its cache lookup met: "none" (no lookup),
                \*   "absent", "ok", or the exception of the read
  ops,          \* per record: the cache operations its call performed
  written,      \* per key: the label sets process_item wrote in this run
  puts,         \* the (text, model) pairs process_item ever wrote an entry for
  data_shape,   \* categorize_file: what the input file holds
  summary,      \* categorize_file: output["summary"]
  out_file,     \* categorize_file: the output file, "none" until written
  exit_code,    \* cli.main: the status passed to sys.exit, -1 before
  segments,     \* the comma-separated segments a reply is made of
  raw,          \* extract_categories: the reply, as characters
  detected      \* extract_categories: the set returned

\* The variables process_item and process_batch leave alone.
aux == <<data_shape, summary, out_file, exit_code, segments, raw, detected>>

vars ==
  <<items, batch_size, model, cache_dir, dirExists, cache, pc, i, error, st,
    result, completed, results, output, path, failed, found, ops, written,
    puts, aux>>

CacheDir == "~/.cache/text_categorizer"

\* The value of `result` before a call has returned.
NoResult == [none |-> TRUE]

Indices == 1..Len(items)

EmptyDir == [key \in CacheKeys |-> NoFile]

\* Directories a run with caching may find: no file, or one file of any
\* content under one key.
InitialCaches ==
  {EmptyDir}
  \cup {[EmptyDir EXCEPT ![key] = f] : key \in TextKeys, f \in PreexistingFiles}

\* Directories a run without caching may find (it never looks): no file, or
\* a well-formed entry under every key.
UnusedCaches ==
  {EmptyDir,
   [key \in CacheKeys |->
      IF key \in TextKeys THEN json_dump("a", <<"Workforce">>) ELSE NoFile]}

\* Nothing of a run has happened yet.
FreshRun ==
  /\ i = 0
  /\ error = "none"
  /\ st = [k \in Indices |-> "unborn"]
  /\ result = [k \in Indices |-> NoResult]
  /\ completed = <<>>
  /\ results = <<>>
  /\ output = <<>>
  /\ path = [k \in Indices |-> "none"]
  /\ failed = [k \in Indices |-> FALSE]
  /\ found = [k \in Indices |-> "none"]
  /\ ops = [k \in Indices |-> {}]
  /\ written = [key \in CacheKeys |-> {}]

\* The value of `summary` before categorize_file has built it.
NoSummary == [total_items |-> -1, category_counts |-> <<>>]

\* Nothing of categorize_file, cli.main or extract_categories has happened.
AuxIdle ==
  /\ summary = NoSummary
  /\ out_file = "none"
  /\ exit_code = -1
  /\ segments = <<>>
  /\ raw = <<>>
  /\ detected = {}

\* The input lists of at most MaxItems records.
ItemLists ==
  UNION {{[k \in 1..n |-> MkRecord(k, d[k])] : d \in [1..n -> Descriptions]} :
           n \in 0..MaxItems}

\* process_batch is entered with a list of records.
Init ==
  /\ items \in ItemLists
  /\ batch_size \in BatchSizes
  /\ model \in Models
  /\ cache_dir \in {"None", CacheDir}
  /\ cache \in (IF cache_dir = "None" THEN UnusedCaches ELSE InitialCaches)
  /\ dirExists = (\E key \in CacheKeys : Exists(cache[key]))
  /\ pc = "loop"
  /\ FreshRun
  /\ puts = {}
  /\ data_shape = "list"
  /\ AuxIdle

(* --------------------------- process_batch --------------------------- *)

\* Mutant of Window: the slice is one record too long.
WindowOffByOne == {k \in Indices : i < k /\ k <= i + batch_size + 1}

\* batch = items[i : i + batch_size], as indices into items.
Window == {k \in Indices : i < k /\ k <= i + batch_size}

\* range(0, len(items), batch_size) has a next value.
RangeHasNext == batch_size > 0 /\ i < Len(items)

\* Mutant of WindowComplete: wait for the first call only.
WindowAnyComplete == \E k \in Window : st[k] = "done"

\* asyncio.gather(*tasks) has every result.
WindowComplete == \A k \in Window : st[k] = "done"

\* Mutant of GatherResults: the results in the order the calls returned.
GatherAsCompleted == [j \in 1..Len(completed) |-> result[completed[j]]]

\* asyncio.gather returns the results in the order of its arguments.
GatherResults == [j \in 1..Cardinality(Window) |-> result[i + j]]

\* Mutant of LoopRaise: a step of 0 gives an empty range.
LoopSkipsOnZero ==
  /\ pc = "loop"
  /\ batch_size = 0
  /\ pc' = "done"
  /\ UNCHANGED <<aux, puts, items, batch_size, model, cache_dir, dirExists, cache, i,
                 error, st, result, completed, results, output, path, failed, found,
                 ops, written>>

\* range() with a step of 0 raises ValueError.
LoopRaise ==
  /\ pc = "loop"
  /\ batch_size = 0
  /\ pc' = "raised"
  /\ error' = "ValueError"
  /\ UNCHANGED <<aux, puts, items, batch_size, model, cache_dir, dirExists, cache, i, st,
                 result, completed, results, output, path, failed, found, ops, written>>

\* One iteration of the for loop up to the gather: the window's calls are
\* created, none has run yet.
StartWindow ==
  /\ pc = "loop"
  /\ batch_size # 0
  /\ RangeHasNext
  /\ st' = [k \in Indices |-> IF k \in Window THEN "pending" ELSE st[k]]
  /\ completed' = <<>>
  /\ pc' = "gather"
  /\ UNCHANGED <<aux, puts, items, batch_size, model, cache_dir, dirExists, cache, i,
                 error, result, results, output, path, failed, found, ops, written>>

\* The range is exhausted: the generator returns.
Finish ==
  /\ pc = "loop"
  /\ batch_size # 0
  /\ ~RangeHasNext
  /\ pc' = "done"
  /\ UNCHANGED <<aux, puts, items, batch_size, model, cache_dir, dirExists, cache, i,
                 error, st, result, completed, results, output, path, failed, found,
                 ops, written>>

(* ---------------------------- process_item --------------------------- *)

\* Mutant of Caching: the cache is used whether or not it was asked for.
CachingAlways == TRUE

\* `if cache_dir:`
Caching == cache_dir # "None"

\* Mutant of ItemAfter: item["categories"] = cats, on the caller's dict.
ItemUpdatedInPlace(item, cats) ==
  [f \in (DOMAIN item) \cup {"categories"} |->
      IF f = "categories" THEN cats ELSE item[f]]

\* The caller's record once {**item, "categories": cats} has built the
\* result: the spread copies, the record is as it was.
ItemAfter(item, cats) == item

\* The event loop runs the first step of the window's calls in the order the
\* calls were created, before it polls for any reply.
NextToStart(k) ==
  /\ k \in Window
  /\ st[k] = "pending"
  /\ \A j \in Window : j < k => st[j] # "pending"

\* process_item up to its first suspension: the empty-text return, the cache
\* lookup, and the request being issued.
StartItem(k) ==
  LET item == items[k]
      text == Get(item, "description", "")
      key  == CacheKey(text, model)
      caching == Caching
      looked == caching /\ Exists(cache[key])
      read == ReadCached(cache[key])
      done(cats, how) ==
        /\ st' = [st EXCEPT ![k] = "done"]
        /\ result' = [result EXCEPT ![k] = WithCategories(item, cats)]
        /\ items' = [items EXCEPT ![k] = ItemAfter(item, cats)]
        /\ completed' = Append(completed, k)
        /\ path' = [path EXCEPT ![k] = how]
  IN
  /\ pc = "gather"
  /\ NextToStart(k)
  /\ IF Falsy(text)
       THEN /\ done(<<"Other">>, "empty")
            /\ UNCHANGED <<dirExists, ops>>
       ELSE /\ dirExists' = (dirExists \/ caching)
            /\ ops' = [ops EXCEPT ![k] =
                         IF ~caching THEN {}
                         ELSE IF looked THEN {"mkdir", "exists", "read"}
                         ELSE {"mkdir", "exists"}]
            /\ IF looked /\ read.exc = "none"
                 THEN done(read.categories, "hit")
               ELSE IF looked /\ read.exc \notin Caught
                 THEN /\ st' = [st EXCEPT ![k] = "raised"]
                      /\ UNCHANGED <<items, result, completed, path>>
               ELSE /\ st' = [st EXCEPT ![k] = "waiting"]
                    /\ path' = [path EXCEPT ![k] = "miss"]
                    /\ UNCHANGED <<items, result, completed>>
  /\ found' = [found EXCEPT ![k] =
                 IF Falsy(text) \/ ~caching THEN "none"
                 ELSE IF ~looked THEN "absent"
                 ELSE read.exc]
  /\ UNCHANGED <<aux, puts, batch_size, model, cache_dir, cache, pc, i, error,
                 results, output, failed, written>>

\* The rest of process_item, run when the request of record k ends in
\* `outcome`: extract the labels, write the cache file, return.  A reply is
\* handled only after every first step of the window has run, and not at all
\* once a first step raised: the run ends before the loop polls for replies.
Respond(k, outcome) ==
  LET item == items[k]
      text == Get(item, "description", "")
      key  == CacheKey(text, model)
      caching == Caching
      response == get_ollama_response(outcome)
      categories == extract_categories(response.text)
  IN
  /\ pc = "gather"
  /\ st[k] = "waiting"
  /\ \A j \in Window : st[j] \notin {"pending", "raised"}
  /\ failed' = [failed EXCEPT ![k] = ~outcome.ok]
  /\ IF response.exc # "none"
       THEN /\ st' = [st EXCEPT ![k] = "raised"]
            /\ UNCHANGED <<items, result, cache, written, puts, ops, completed>>
       ELSE /\ \E cats \in Orderings(categories) :
                 /\ result' = [result EXCEPT ![k] = WithCategories(item, cats)]
                 /\ items' = [items EXCEPT ![k] = ItemAfter(item, cats)]
                 /\ cache' = IF caching
                               THEN [cache EXCEPT ![key] = json_dump(text, cats)]
                               ELSE cache
            /\ written' = IF caching
                            THEN [written EXCEPT
                                    ![key] = written[key] \cup {categories}]
                            ELSE written
            /\ puts' = IF caching THEN puts \cup {<<text, model>>} ELSE puts
            /\ ops' = [ops EXCEPT
                         ![k] = IF caching THEN ops[k] \cup {"write"} ELSE ops[k]]
            /\ st' = [st EXCEPT ![k] = "done"]
            /\ completed' = Append(completed, k)
  /\ UNCHANGED <<aux, batch_size, model, cache_dir, dirExists, pc, i, error,
                 results, output, path, found>>

(* ------------------------ gather and the yields ---------------------- *)

\* gather passes on the first exception of a call; the generator and
\* categorize_file raise, and asyncio.run cancels the calls still waiting.
GatherRaise ==
  /\ pc = "gather"
  /\ \A k \in Window : st[k] # "pending"
  /\ \E k \in Window : st[k] = "raised"
  /\ pc' = "raised"
  /\ error' = LET k == CHOOSE n \in Window : st[n] = "raised" /\
                                  \A m \in Window : st[m] = "raised" => n <= m
              IN  IF path[k] = "miss" THEN "HTTPError" ELSE found[k]
  /\ st' = [k \in Indices |-> IF st[k] = "waiting" THEN "cancelled" ELSE st[k]]
  /\ UNCHANGED <<aux, puts, items, batch_size, model, cache_dir, dirExists, cache, i,
                 result, completed, results, output, path, failed, found, ops, written>>

\* results = await asyncio.gather(*tasks)
GatherDone ==
  /\ pc = "gather"
  /\ WindowComplete
  /\ results' = GatherResults
  /\ pc' = "emit"
  /\ UNCHANGED <<aux, puts, items, batch_size, model, cache_dir, dirExists, cache, i,
                 error, st, result, completed, output, path, failed, found, ops, written>>

\* for result in results: yield result -- and, after the last one, the next
\* value of the range.
Emit ==
  LET n == Len(output) - i + 1
  IN
  /\ pc = "emit"
  /\ n \in DOMAIN results
  /\ output' = Append(output, results[n])
  /\ IF n = Len(results)
       THEN pc' = "loop" /\ i' = i + batch_size
       ELSE UNCHANGED <<pc, i>>
  /\ UNCHANGED <<aux, puts, items, batch_size, model, cache_dir, dirExists, cache, error,
                 st, result, completed, results, path, failed, found, ops, written>>

Next ==
  \/ LoopRaise
  \/ StartWindow
  \/ Finish
  \/ \E k \in Indices : StartItem(k)
  \/ \E k \in Indices : \E outcome \in Outcomes : Respond(k, outcome)
  \/ GatherRaise
  \/ GatherDone
  \/ Emit

Spec == Init /\ [][Next]_vars

\* What keeps a run going.  The event loop runs every step that is ready:
\* the first step of a created call, and gather's return or raise.  The
\* service ends every request, by a reply or by an httpx.HTTPError (the
\* client's timeout of 30 s at the latest).  The consumer, the `async for`
\* of categorize_file, takes each record yielded and asks for the next.
EventLoopRuns ==
  /\ WF_vars(\E k \in Indices : StartItem(k))
  /\ WF_vars(GatherRaise)
  /\ WF_vars(GatherDone)

RequestsEnd ==
  \A k \in 1..MaxItems :
     WF_vars(k \in Indices /\ \E outcome \in Outcomes : Respond(k, outcome))

ConsumerReads ==
  /\ WF_vars(LoopRaise)
  /\ WF_vars(StartWindow)
  /\ WF_vars(Emit)
  /\ WF_vars(Finish)

SpecLive == Spec /\ EventLoopRuns /\ RequestsEnd /\ ConsumerReads

(* --------------------- categorize_file and cli.main ------------------- *)

\* What the input file may hold: nothing (no such file), text that is not
\* JSON, JSON that is neither a list nor an object with "needs" (such as an
\* object with the records under another key), a list, {"needs": [...]}.
DataShapes == {"missing", "malformed", "other", "list", "needs"}

BadShapes == {"missing", "malformed", "other"}

\* Mutant of load_error: any JSON is taken as the list of records.
load_error_lenient(shape) ==
  CASE shape = "missing"   -> "FileNotFoundError"
    [] shape = "malformed" -> "JSONDecodeError"
    [] OTHER               -> "none"

\* The exception open, json.load and the shape test of categorize_file end
\* in, or "none".
load_error(shape) ==
  CASE shape = "missing"   -> "FileNotFoundError"
    [] shape = "malformed" -> "JSONDecodeError"
    [] shape = "other"     -> "ValueError"
    [] OTHER               -> "none"

\* The number of times label c occurs in the list cats.
Occurrences(c, cats) == Cardinality({n \in DOMAIN cats : cats[n] = c})

\* The sum of f over 1..n.
RECURSIVE SumTo(_, _)
SumTo(f, n) == IF n = 0 THEN 0 ELSE f[n] + SumTo(f, n - 1)

\* category_counts: one is added per element of each record's categories.
CategoryCounts(records) ==
  LET seen == UNION {ToSet(Get(records[n], "categories", <<>>)) :
                       n \in DOMAIN records}
  IN  [c \in seen |->
         SumTo([n \in DOMAIN records |->
                  Occurrences(c, Get(records[n], "categories", <<>>))],
               Len(records))]

\* Directories a run of categorize_file may find: no file, or under the key
\* of text "a" a JSON array, an entry that repeats a label, or a good entry.
FileCaches ==
  {EmptyDir}
  \cup {[EmptyDir EXCEPT ![CacheKey("a", m)] = f] :
          m \in Models,
          f \in {JsonArray, json_dump("a", <<"Data", "Data">>),
                 json_dump("a", <<"Workforce">>)}}

\* cli.main is started on an input file; `items` are the records the file
\* carries, wherever it carries them.
InitFile ==
  /\ data_shape \in DataShapes
  /\ items \in (IF data_shape \in {"missing", "malformed"}
                  THEN {<<>>} ELSE ItemLists)
  /\ batch_size \in BatchSizes
  /\ model \in Models
  /\ cache_dir \in {"None", CacheDir}
  /\ cache \in (IF cache_dir = "None" THEN {EmptyDir} ELSE FileCaches)
  /\ dirExists = (\E key \in CacheKeys : Exists(cache[key]))
  /\ pc = "main"
  /\ FreshRun
  /\ puts = {}
  /\ AuxIdle

\* cli.main: a missing input file ends the program with status 1.
CheckInput ==
  /\ pc = "main"
  /\ IF data_shape = "missing"
       THEN pc' = "exited" /\ exit_code' = 1
       ELSE pc' = "load" /\ UNCHANGED exit_code
  /\ UNCHANGED <<items, batch_size, model, cache_dir, dirExists, cache, i, error,
                 st, result, completed, results, output, path, failed, found,
                 ops, written, puts, data_shape, summary, out_file, segments,
                 raw, detected>>

\* categorize_file up to the call of process_batch.
LoadInput ==
  /\ pc = "load"
  /\ IF load_error(data_shape) # "none"
       THEN pc' = "raised" /\ error' = load_error(data_shape)
       ELSE pc' = "loop" /\ UNCHANGED error
  /\ UNCHANGED <<aux, items, batch_size, model, cache_dir, dirExists, cache, i,
                 st, result, completed, results, output, path, failed, found,
                 ops, written, puts>>

\* categorize_file after the last record: the summary, and the output file
\* when one was asked for.
Summarize ==
  /\ pc = "done"
  /\ summary' = [total_items |-> Len(output),
                 category_counts |-> CategoryCounts(output)]
  /\ \E out \in {"none", "written"} : out_file' = out
  /\ pc' = "returned"
  /\ UNCHANGED <<items, batch_size, model, cache_dir, dirExists, cache, i, error,
                 st, result, completed, results, output, path, failed, found,
                 ops, written, puts, data_shape, exit_code, segments, raw,
                 detected>>

\* cli.main after asyncio.run: the summary is shown (a percentage of
\* total_items per label) and status 0 passed to sys.exit; any exception
\* gives status 1.
Exit ==
  /\ pc \in {"returned", "raised"}
  /\ exit_code' =
       IF pc = "raised" THEN 1
       ELSE IF summary.total_items = 0 /\ DOMAIN summary.category_counts # {}
         THEN 1
       ELSE 0
  /\ pc' = "exited"
  /\ UNCHANGED <<items, batch_size, model, cache_dir, dirExists, cache, i, error,
                 st, result, completed, results, output, path, failed, found,
                 ops, written, puts, data_shape, summary, out_file, segments,
                 raw, detected>>

NextFile ==
  \/ CheckInput
  \/ LoadInput
  \/ LoopRaise
  \/ StartWindow
  \/ Finish
  \/ \E k \in Indices : StartItem(k)
  \/ \E k \in Indices : \E outcome \in Outcomes : Respond(k, outcome)
  \/ GatherRaise
  \/ GatherDone
  \/ Emit
  \/ Summarize
  \/ Exit

SpecFile == InitFile /\ [][NextFile]_vars

(* ------------------ extract_categories on any response ---------------- *)

\* Whitespace a model puts around a label of a comma-separated list.
Pads == {<< <<>>, <<>> >>, << <<" ">>, <<"\n">> >>}

\* The ways label c is written as one segment of a list.
Padded(c) == {p[1] \o Spell(c) \o p[2] : p \in Pads}

LabelSegments == UNION {Padded(c) : c \in Labels}

\* Segments of prose: labels named in a sentence, a label in lower case,
\* words that have the text of a label inside them, and text with no label.
ProseSegments ==
  { <<"a","b","o","u","t"," ","F","u","n","d","i","n","g"," ","a","n","d",
      " ","G","o","v","e","r","n","a","n","c","e"," ","i","s","s","u",
      "e","s">>,
    <<"g","o","v","e","r","n","a","n","c","e">>,
    <<"t","h","e"," ","d","a","t","a","b","a","s","e">>,
    <<"a","n","o","t","h","e","r">>,
    <<"N","o","n","e"," ","o","f"," ","t","h","e","s","e"," ","c","a","t",
      "e","g","o","r","i","e","s"," ","a","p","p","l","y">>,
    <<"n","/","a">>,
    <<>> }

Pieces == LabelSegments \cup ProseSegments

\* ",".join(segs)
RECURSIVE JoinComma(_)
JoinComma(segs) ==
  IF segs = <<>> THEN <<>>
  ELSE IF Len(segs) = 1 THEN segs[1]
  ELSE segs[1] \o <<",">> \o JoinComma(Tail(segs))

\* A response is about to be written, one segment at a time.
InitExtract ==
  /\ items = <<>>
  /\ batch_size = 1
  /\ model \in Models
  /\ cache_dir = "None"
  /\ cache = EmptyDir
  /\ dirExists = FALSE
  /\ pc = "compose"
  /\ FreshRun
  /\ puts = {}
  /\ data_shape = "list"
  /\ AuxIdle

\* The model's answer grows by one segment.
Compose(piece) ==
  /\ pc = "compose"
  /\ Len(segments) < MaxSegments
  /\ segments' = Append(segments, piece)
  /\ UNCHANGED <<items, batch_size, model, cache_dir, dirExists, cache, pc, i,
                 error, st, result, completed, results, output, path, failed,
                 found, ops, written, puts, data_shape, summary, out_file,
                 exit_code, raw, detected>>

\* extract_categories is applied to the answer.
Extract ==
  /\ pc = "compose"
  /\ raw' = JoinComma(segments)
  /\ detected' = extract_categories(raw')
  /\ pc' = "extracted"
  /\ UNCHANGED <<items, batch_size, model, cache_dir, dirExists, cache, i,
                 error, st, result, completed, results, output, path, failed,
                 found, ops, written, puts, data_shape, summary, out_file,
                 exit_code, segments>>

NextExtract ==
  \/ \E piece \in Pieces : Compose(piece)
  \/ Extract

SpecExtract == InitExtract /\ [][NextExtract]_vars

(* ------------------ successive runs over one directory ---------------- *)

\* The input lists of one record.
OneRecordLists == {l \in ItemLists : Len(l) = 1}

\* The first of several runs: caching enabled, an empty directory, one
\* record, one call at a time.
InitRuns ==
  /\ items \in OneRecordLists
  /\ batch_size = 1
  /\ model \in RunModels
  /\ cache_dir = CacheDir
  /\ cache = EmptyDir
  /\ dirExists = FALSE
  /\ pc = "loop"
  /\ FreshRun
  /\ puts = {}
  /\ data_shape = "list"
  /\ AuxIdle

\* The program is run again, with another record and maybe another model;
\* the cache directory is as the runs before left it.
NewRun ==
  /\ pc = "done"
  /\ items' \in OneRecordLists
  /\ model' \in RunModels
  /\ pc' = "loop"
  /\ i' = 0
  /\ st' = [k \in 1..1 |-> "unborn"]
  /\ result' = [k \in 1..1 |-> NoResult]
  /\ completed' = <<>>
  /\ results' = <<>>
  /\ output' = <<>>
  /\ path' = [k \in 1..1 |-> "none"]
  /\ failed' = [k \in 1..1 |-> FALSE]
  /\ found' = [k \in 1..1 |-> "none"]
  /\ ops' = [k \in 1..1 |-> {}]
  /\ written' = [key \in CacheKeys |-> {}]
  /\ UNCHANGED <<aux, puts, batch_size, cache_dir, dirExists, cache, error>>

NextRuns ==
  \/ StartWindow
  \/ Finish
  \/ \E k \in Indices : StartItem(k)
  \/ \E k \in Indices : \E outcome \in Outcomes : Respond(k, outcome)
  \/ GatherDone
  \/ Emit
  \/ NewRun

SpecRuns == InitRuns /\ [][NextRuns]_vars

TypeOK ==
  /\ pc \in {"main", "load", "loop", "gather", "emit", "done", "raised",
             "returned", "exited", "compose", "extracted"}
  /\ error \in {"none", "ValueError", "TypeError", "HTTPError",
                "FileNotFoundError", "JSONDecodeError"}
  /\ \A k \in Indices :
       st[k] \in {"unborn", "pending", "waiting", "done", "raised", "cancelled"}

(* ------------------------------ helpers ------------------------------ *)

\* The text of record k, as process_item reads it.
TextOf(k) == Get(items[k], "description", "")

\* The cache file name of record k.
KeyOf(k) == CacheKey(TextOf(k), model)

\* The window of record k, for a positive batch_size.
WindowOf(k) == (k - 1) \div batch_size

\* The number of requests issued and not yet returned.
InFlight == Cardinality({k \in Indices : st[k] = "waiting"})

\* The call of record k has started.
Started(k) == st[k] \notin {"unborn", "pending"}

\* The file is an entry that carries a category list.
HasEntry(file) == file.kind = "object" /\ "categories" \in file.keys

\* Non-empty, duplicate-free, labels of the taxonomy only.
WellFormed(cats) ==
  /\ Len(cats) > 0
  /\ \A a, b \in DOMAIN cats : a # b => cats[a] # cats[b]
  /\ ToSet(cats) \subseteq Labels

(* ------------------------------- claims ------------------------------- *)

\* C1: the records process_batch yields are, position by position, the
\* annotated input records in input order, whatever order the calls of a
\* window returned in; a run with a positive window size that ends yields
\* all of them.
C1_OrderPreserved ==
  /\ Len(output) <= Len(items)
  /\ \A n \in DOMAIN output :
       /\ output[n].id = items[n].id
       /\ output[n] = result[n]
  /\ (pc = "done" /\ batch_size >= 1) => Len(output) = Len(items)

\* C1 witness: a window smaller than the list whose second call returned
\* first has been yielded.
C1_Witness ==
  /\ batch_size = 2 /\ Len(items) = 3
  /\ completed = <<2, 1>>
  /\ Len(output) = 2
  /\ output[1].id = 1 /\ output[2].id = 2

\* C2: the number of inference requests issued and not yet returned never
\* exceeds the window size (and is zero for a non-positive size).
C2_BoundedInFlight ==
  InFlight <= (IF batch_size > 0 THEN batch_size ELSE 0)

\* C2 witness: the bound is attained, a full window of requests in flight.
C2_Witness == batch_size = 2 /\ InFlight = 2

\* C3: no call of a later window has been created before every call of
\* each earlier window has returned.
C3_WindowsDoNotOverlap ==
  batch_size > 0 =>
    \A a, b \in Indices :
      (WindowOf(a) < WindowOf(b) /\ st[b] # "unborn") => st[a] = "done"

\* C3 witness: a call of the second window is waiting for its reply.
C3_Witness ==
  /\ batch_size > 0
  /\ \E b \in Indices : WindowOf(b) >= 1 /\ st[b] = "waiting"

\* C4 as claimed: with caching, any two occurrences of the same non-empty
\* text in a run issue at most one inference request between them.
C4_AtMostOneInference ==
  Caching =>
    \A a, b \in Indices :
      (a # b /\ TextOf(a) = TextOf(b)) => ~(path[a] = "miss" /\ path[b] = "miss")

\* C4 amended: with caching, a call that starts after a call for the same
\* non-empty text has returned is served from the cache in its first step and
\* issues no inference request.
C4_ServedAfterReturn ==
  [][\A k \in Indices :
       ( /\ Caching
         /\ st[k] = "pending" /\ st'[k] # "pending"
         /\ ~Falsy(TextOf(k))
         /\ \E j \in Indices : j # k /\ st[j] = "done" /\ TextOf(j) = TextOf(k) )
       => (st'[k] = "done" /\ path'[k] = "hit")]_vars

\* C4 witness: a record went to the service and wrote its entry, and a later
\* occurrence of it was served from the cache.
C4_Witness ==
  \E a, b \in Indices :
    /\ a < b /\ TextOf(a) = TextOf(b)
    /\ st[a] = "done" /\ path[a] = "miss"
    /\ st[b] = "done" /\ path[b] = "hit"

\* C5 as claimed: an entry that carries a category set keeps that set in
\* every later state of the cache.
C5_EntriesImmutable ==
  [][\A key \in CacheKeys :
       HasEntry(cache[key]) =>
         /\ HasEntry(cache'[key])
         /\ ToSet(cache'[key].categories) = ToSet(cache[key].categories)]_vars

\* C6 as claimed: whatever path a call returned by, its categories are
\* non-empty, duplicate-free and labels of the taxonomy.
C6_CategoriesWellFormed ==
  \A k \in Indices : st[k] = "done" => WellFormed(result[k].categories)

\* C7: a record whose description is empty or absent gets exactly ["Other"],
\* with no inference request and no cache operation of its call; a run of
\* such records alone leaves the directory as it found it.
C7_EmptyTextShortCircuit ==
  /\ \A k \in Indices :
       (Started(k) /\ TextOf(k) = "") =>
          /\ st[k] = "done"
          /\ result[k].categories = <<"Other">>
          /\ path[k] = "empty" /\ found[k] = "none"
          /\ ops[k] = {}
          /\ ~failed[k]
  /\ (\A k \in Indices : TextOf(k) = "") =>
          /\ dirExists = (\E key \in CacheKeys : Exists(cache[key]))
          /\ \A key \in CacheKeys : written[key] = {}

\* C7 witness: with caching enabled, a record without a description and a
\* record with an empty one have both been processed.
C7_Witness ==
  /\ Caching
  /\ \E a, b \in Indices :
       /\ "description" \notin DOMAIN items[a] /\ st[a] = "done"
       /\ "description" \in DOMAIN items[b] /\ items[b].description = ""
       /\ st[b] = "done"

\* C8: a record whose inference request failed is annotated with exactly
\* ["Other"] and its call returns; the failure never ends the run, and a run
\* that ends has yielded every record.
C8_InferenceFailureRecovered ==
  /\ \A k \in Indices :
       failed[k] => (st[k] = "done" /\ result[k].categories = <<"Other">>)
  /\ error # "HTTPError"
  /\ ((\E k \in Indices : failed[k]) /\ pc = "done") =>
        /\ Len(output) = Len(items)
        /\ \A n \in Indices : output[n] = result[n] /\ st[n] = "done"

\* C8 witness: a run ended in which one request failed and another record
\* was labelled by a live reply; all records were yielded.
C8_Witness ==
  /\ pc = "done"
  /\ Len(output) = Len(items)
  /\ \E a, b \in Indices :
       /\ failed[a] /\ output[a].categories = <<"Other">>
       /\ path[b] = "miss" /\ ~failed[b] /\ output[b].categories # <<"Other">>

\* C9 as claimed: a call whose lookup met a malformed or schema-mismatched
\* entry does not raise; it goes on to the service and, once it returned,
\* the file is a well-formed entry.
C9_MalformedEntryIsMiss ==
  \A k \in Indices :
    found[k] \in {"JSONDecodeError", "KeyError", "TypeError"} =>
       /\ st[k] \in {"waiting", "done"}
       /\ path[k] = "miss"
       /\ st[k] = "done" => HasEntry(cache[KeyOf(k)])

\* C10 as claimed: a lookup that finds an entry returns, as a set, every
\* label set written for that key earlier in the run.
C10_RoundTrip ==
  [][\A k \in Indices :
       (path[k] = "none" /\ path'[k] = "hit") =>
          \A L \in written[KeyOf(k)] : ToSet(result'[k].categories) = L]_vars

\* C11 as claimed: a lookup finds an entry only for a (text, model) pair
\* that process_item wrote an entry for; the cache directory starts empty.
C11_UnseenPairMisses ==
  \A k \in Indices :
    path[k] = "hit" => <<TextOf(k), model>> \in puts

\* C12 as claimed: no process_item call ends by raising; every call that
\* returned carries a categories field.
C12_NeverFails ==
  \A k \in Indices :
    /\ st[k] # "raised"
    /\ st[k] = "done" => "categories" \in DOMAIN result[k]

\* C14: a call that returns leaves the input list as it was, and its result
\* has the fields of the input record, each with the same value, and
\* `categories`.
C14_FieldsPassThrough ==
  [][ /\ items' = items
      /\ \A k \in Indices :
           (st[k] # "done" /\ st'[k] = "done") =>
              /\ DOMAIN result'[k] = (DOMAIN items[k]) \cup {"categories"}
              /\ \A f \in (DOMAIN items[k]) \ {"categories"} :
                   result'[k][f] = items[k][f] ]_vars

\* C14 witness: a record labelled by a live reply came back with its id and
\* description, and the input record still has no categories.
C14_Witness ==
  \E k \in Indices :
    /\ st[k] = "done" /\ path[k] = "miss"
    /\ result[k].id = k /\ result[k].description = "a:b"
    /\ result[k].categories # <<"Other">>
    /\ DOMAIN items[k] = {"id", "description"}

\* C19: without a cache directory every record with text that has started
\* has issued its one inference request, no call performed a cache
\* operation, and the directory and its files are as the run found them.
C19_NoCacheWhenDisabled ==
  cache_dir = "None" =>
    /\ \A k \in Indices :
         /\ ops[k] = {} /\ found[k] = "none" /\ path[k] # "hit"
         /\ (Started(k) /\ TextOf(k) # "") => path[k] = "miss"
    /\ (pc = "done" /\ batch_size >= 1) =>
         \A k \in Indices : TextOf(k) # "" => (st[k] = "done" /\ path[k] = "miss")
    /\ cache \in UnusedCaches
    /\ dirExists = (\E key \in CacheKeys : Exists(cache[key]))
    /\ puts = {}
    /\ \A key \in CacheKeys : written[key] = {}

\* C19 witness: a run without caching ended; two records with the same text
\* each went to the service, past the entries the directory holds.
C19_Witness ==
  /\ cache_dir = "None" /\ pc = "done"
  /\ \E key \in CacheKeys : Exists(cache[key])
  /\ \E a, b \in Indices :
       /\ a # b /\ TextOf(a) = TextOf(b)
       /\ path[a] = "miss" /\ path[b] = "miss"
       /\ st[a] = "done" /\ st[b] = "done"

\* C13 as claimed: total_items is the number of records in the output, and
\* category_counts has an entry exactly for the labels some record carries,
\* each the number of records that carry the label.
C13_SummaryCounts ==
  pc \in {"returned", "exited"} /\ summary # NoSummary =>
    LET carried == UNION {ToSet(output[n].categories) : n \in DOMAIN output}
    IN  /\ summary.total_items = Len(output)
        /\ DOMAIN summary.category_counts = carried
        /\ \A c \in carried :
             summary.category_counts[c] =
               Cardinality({n \in DOMAIN output : c \in ToSet(output[n].categories)})

\* C15: on a missing, malformed or unsupported input the run ends by an
\* error before any call is created: no request, no cache operation, the
\* directory as it was found, no summary and no output file.
C15_BadInputAborts ==
  data_shape \in BadShapes =>
    /\ pc \in {"main", "load", "raised", "exited"}
    /\ pc = "raised" => error \in {"JSONDecodeError", "ValueError"}
    /\ pc = "exited" => exit_code = 1
    /\ \A k \in Indices :
         st[k] = "unborn" /\ path[k] = "none" /\ ops[k] = {} /\ found[k] = "none"
    /\ output = <<>>
    /\ cache \in FileCaches
    /\ dirExists = (\E key \in CacheKeys : Exists(cache[key]))
    /\ puts = {}
    /\ summary = NoSummary /\ out_file = "none"

\* C15 witness: with caching enabled, a file of unsupported shape that
\* carries a record with text was refused with a ValueError.
C15_Witness ==
  /\ data_shape = "other" /\ Caching
  /\ \E k \in Indices : TextOf(k) # ""
  /\ pc = "raised" /\ error = "ValueError"

\* C20 as claimed: the status is non-zero exactly on a fatal error.  Fatal
\* are a missing, malformed or unsupported input file and, as an invalid
\* argument, a batch size of 0.
C20_ExitStatus ==
  pc = "exited" =>
    (exit_code # 0 <=> (data_shape \in BadShapes \/ batch_size = 0))

\* Letters, for word boundaries.
IsLetter(ch) ==
  \E n \in DOMAIN UpperAlphabet : ch = UpperAlphabet[n] \/ ch = LowerAlphabet[n]

\* needle occurs in hay as whole words: no letter right before or after it.
OccursAsWord(hay, needle) ==
  \E n \in 0..(Len(hay) - Len(needle)) :
      /\ SubSeq(hay, n + 1, n + Len(needle)) = needle
      /\ n = 0 \/ ~IsLetter(hay[n])
      /\ n + Len(needle) = Len(hay) \/ ~IsLetter(hay[n + Len(needle) + 1])

\* The labels a response names, in any case, as words of their own.
Embedded(response) ==
  {c \in Labels : OccursAsWord(Lower(response), Lower(Spell(c)))}

\* C16: a response that is a comma-separated list of labels, each with or
\* without whitespace around it, gives exactly the set of the labels listed,
\* whatever their order and however often they are repeated.
C16_LabelListExact ==
  (/\ pc = "extracted"
   /\ segments # <<>>
   /\ \A n \in DOMAIN segments : segments[n] \in LabelSegments)
  => detected = {c \in Labels : \E n \in DOMAIN segments : segments[n] \in Padded(c)}

\* C16 witness: a list of two different labels, one of them padded, gave
\* the two labels.
C16_Witness ==
  /\ pc = "extracted"
  /\ Len(segments) = 2
  /\ segments[1] \in Padded("Data") /\ segments[1] # Spell("Data")
  /\ segments[2] = Spell("Funding")
  /\ detected = {"Data", "Funding"}

\* C17: a response in which no label occurs as a case-insensitive
\* substring, the empty response included, gives exactly {"Other"}.
C17_NoLabelGivesOther ==
  (/\ pc = "extracted"
   /\ \A c \in Labels : ~Contains(Lower(raw), Lower(Spell(c))))
  => detected = {"Other"}

\* C17 witness: a response of two segments, one a sentence, without any label
\* text gave {"Other"}.
C17_Witness ==
  /\ pc = "extracted"
  /\ Len(segments) = 2 /\ Len(raw) > 30
  /\ \A c \in Labels : ~Contains(Lower(raw), Lower(Spell(c)))
  /\ detected = {"Other"}

\* C18 as claimed: a response in prose (no segment of it is a label) gives
\* the labels it names as words, or "Other" when it names none; text of a
\* label inside a longer word adds no label.
C18_NoPartialWordMatch ==
  (pc = "extracted" /\ ExactMatches(raw) = {})
  => detected = (IF Embedded(raw) = {} THEN {"Other"} ELSE Embedded(raw))

\* C21: when some comma-separated segment, trimmed, is a label, the result is
\* exactly the set of the segments that are labels; a label that occurs only
\* inside other text of the response (in a sentence, inside a longer word,
\* in lower case) is not added.
C21_ExactPassHasPriority ==
  (/\ pc = "extracted"
   /\ \E n \in DOMAIN segments : segments[n] \in LabelSegments)
  => detected = {c \in Labels : \E n \in DOMAIN segments : segments[n] \in Padded(c)}

\* C21 witness: a label followed by a segment that has the text of two other
\* labels in it gave the first label alone.
C21_Witness ==
  /\ pc = "extracted"
  /\ Len(segments) = 2
  /\ segments[1] \in Padded("Data")
  /\ segments[2] \notin LabelSegments
  /\ {"Funding", "Governance"} \subseteq SubstringMatches(raw)
  /\ detected = {"Data"}

\* C22: under every interleaving of the calls of a run, a step that changes
\* a cache file is the return of a call that waited on that key, and it
\* leaves the complete entry of that call (its text, its labels); and a
\* lookup of a key written during the run reads a complete entry, the labels
\* of which some call wrote.
C22_WritesAreWhole ==
  [][ /\ \A key \in CacheKeys :
           cache'[key] # cache[key] =>
             \E k \in Indices :
                /\ KeyOf(k) = key
                /\ st[k] = "waiting" /\ st'[k] = "done"
                /\ cache'[key] = JsonObject({"text", "categories"}, TextOf(k),
                                            result'[k].categories)
      /\ \A k \in Indices :
           (st[k] = "pending" /\ st'[k] # "pending" /\ written[KeyOf(k)] # {}
              /\ Caching /\ TextOf(k) # "") =>
             /\ found'[k] = "none" /\ path'[k] = "hit"
             /\ result'[k].categories = cache[KeyOf(k)].categories
             /\ ToSet(result'[k].categories) \in written[KeyOf(k)] ]_vars

\* C22 witness: two calls of one window wrote the same key, and a call of a
\* later window read the entry.
C22_Witness ==
  /\ batch_size = 2
  /\ \E k1, k2, k3 \in Indices :
     /\ k1 < k2 /\ k2 < k3
     /\ KeyOf(k1) = KeyOf(k2) /\ KeyOf(k2) = KeyOf(k3)
     /\ WindowOf(k1) = WindowOf(k2)
     /\ "write" \in ops[k1] /\ "write" \in ops[k2]
     /\ path[k3] = "hit" /\ st[k3] = "done"

\* C23 as claimed: with caching, once a call whose request failed has
\* returned, the cache holds an entry for its key, and every call for the
\* same text that starts afterwards is served from the cache with exactly
\* {"Other"} and sends no request.
C23_FailureIsCached ==
  (Caching /\ batch_size >= 1) =>
    \A k \in Indices :
      (failed[k] /\ st[k] = "done") =>
        /\ HasEntry(cache[KeyOf(k)])
        /\ \A j \in Indices :
             (KeyOf(j) = KeyOf(k) /\ WindowOf(j) > WindowOf(k) /\ st[j] = "done")
               => /\ path[j] = "hit"
                  /\ ToSet(result[j].categories) = {"Other"}

\* C24 as claimed: for a window size of at least 1, when every request ends
\* and the consumer keeps reading, the run eventually ends normally with
\* one annotated record emitted per input record, in all Len(items).
C24_Terminates ==
  batch_size >= 1 =>
    <>( /\ pc = "done"
        /\ Len(output) = Len(items)
        /\ \A k \in Indices : st[k] = "done" /\ output[k] = result[k] )

\* C25: a batch size below 1 is taken as given, and on a well-formed input
\* no call is created, nothing is looked up, requested, written or emitted.
\* A negative size ends the run normally with total_items 0 and status 0; a
\* size of 0 ends it by a ValueError and status 1.  So a run on a non-empty
\* input that ends with as many records as it was given had a positive size.
C25_NonPositiveBatchSize ==
  data_shape \notin BadShapes =>
    /\ batch_size <= 0 =>
         /\ pc \notin {"gather", "emit"}
         /\ \A k \in Indices :
              /\ st[k] = "unborn" /\ path[k] = "none"
              /\ ops[k] = {} /\ found[k] = "none"
         /\ output = <<>>
         /\ cache \in FileCaches /\ puts = {}
         /\ dirExists = (\E key \in CacheKeys : Exists(cache[key]))
    /\ batch_size < 0 =>
         /\ pc # "raised" /\ error = "none"
         /\ pc \in {"returned", "exited"} => summary.total_items = 0
         /\ pc = "exited" => exit_code = 0
    /\ batch_size = 0 =>
         /\ pc \notin {"done", "returned"}
         /\ pc \in {"raised", "exited"} => error = "ValueError"
         /\ pc = "exited" => exit_code = 1
    /\ (pc \in {"done", "returned", "exited"} /\ items # <<>>
          /\ Len(output) = Len(items)) => batch_size > 0

\* C25 witness: a run with a negative batch size on records that have text
\* ended with status 0 and a summary of 0 records.
C25_Witness ==
  /\ batch_size < 0
  /\ data_shape \notin BadShapes
  /\ Len(items) >= 2 /\ \A k \in Indices : TextOf(k) # ""
  /\ pc = "exited" /\ exit_code = 0
  /\ summary.total_items = 0 /\ output = <<>>

====
